---------------------------- MODULE Spec2Model ----------------------------
(***************************************************************************)
(* A model of the data preparation (Code/Data_Setup.py) and of the         *)
(* training/testing steps (Code/Test_Train.py) of PDE-Extraction.          *)
(*                                                                         *)
(* Conventions.  numpy arrays are sequences; a 2-D array is a sequence of  *)
(* rows.  Python indexes from 0 and TLA+ sequences from 1: index i of the  *)
(* source is index i+1 here, x_points[-1] is x_points[Len(x_points)] and   *)
(* x_points[-2] is x_points[Len(x_points)-1].  Coordinates and solution    *)
(* values are integers (the arithmetic of the source on them is exact).    *)
(* In Generate_Random_Coords the values a tensor of Data_Type can hold are  *)
(* the integers, and a Python float is a multiple of 1/RandomResolution.    *)
(***************************************************************************)
EXTENDS Integers, Sequences, FiniteSets, TLC

\* ------------------------------------------------------------------ bounds
\* Largest grid (space samples times time samples) and largest requested
\* sample count.
MaxCells == 4
MaxPoints == 3
\* Most orchestrator calls in one run, and the largest tensor identity.
MaxCalls == 3
MaxTensor == 2
\* Most entries (rows times columns) of a tensor of random coordinates, and
\* the number of values random.random() can return: j/RandomResolution for
\* j in 0..RandomResolution-1.
MaxEntries == 4
RandomResolution == 4

\* The values the inputs are drawn from.
\* (first sample, spacing) of an axis.
AxisKinds == {<<0, 1>>, <<1, 2>>}
Modes == {"PINNs", "Discovery", "Forward"}
NoiseProportions == {0, 1}
NoiseDraws == {1}
\* (lower bound, upper bound) of one dimension of a box.
BoxKinds == {<<0, 1>>, <<1, 3>>, <<-1, 1>>}

VARIABLES
    data_in,      \* the loaded .mat file: fields t, x, usol
    Settings,     \* the Settings_Container handed to Data_Loader
    pc,           \* "call" before Data_Loader runs, then "returned" or "raised"
    raised,       \* the exception that left Data_Loader ("none" when none did)
    Container,    \* the Data_Container returned (its attributes are its fields)
    net,          \* the parameters of u_NN and N_NN
    grads,        \* the accumulated parameter gradients (.grad)
    Optimizer,    \* the optimizer's own state
    bundle,       \* the data tensors the epoch loop hands to every call
    calls,        \* orchestrator calls made so far
    last,         \* the latest orchestrator call
    prev,         \* the call before it
    sampler_args, \* the arguments of Generate_Random_Coords
    sampler_pc,   \* "call" before Generate_Random_Coords runs, then "returned"
    Random_Coords \* the tensor it returned: its shape and its rows

loader_vars == <<data_in, Settings, pc, raised, Container>>

train_vars == <<net, grads, Optimizer, bundle, calls, last, prev>>

sampler_vars == <<sampler_args, sampler_pc, Random_Coords>>

vars == <<data_in, Settings, pc, raised, Container,
          net, grads, Optimizer, bundle, calls, last, prev,
          sampler_args, sampler_pc, Random_Coords>>

\* No Generate_Random_Coords call in a run.
SamplerIdle ==
    /\ sampler_args = [Dim_Lower_Bounds |-> <<0, 0>>, Dim_Upper_Bounds |-> <<1, 1>>,
                       Num_Points |-> 0]
    /\ sampler_pc = "idle"
    /\ Random_Coords = [shape |-> <<0, 0>>, rows |-> <<>>]

\* What `Container` holds while no container has been returned.
NoContainer == [returned |-> FALSE]

\* ------------------------------------------------------------ numpy helpers
\* An axis with `len` samples from `start`, `step` apart.
AxisSeq(start, step, len) == [i \in 1..len |-> start + (i - 1) * step]

Axes(maxlen) == {AxisSeq(a[1], a[2], n) : a \in AxisKinds, n \in 1..maxlen}

\* A solution array of R rows and C columns whose cells all differ.
SolutionArray(R, C) == [i \in 1..R |-> [j \in 1..C |-> 10 * ((i - 1) * C + j)]]

Rows(A) == Len(A)
Cols(A) == Len(A[1])

\* ndarray.flatten() and reshape(-1, 1) of a 2-D array: row-major order.
flatten(A) ==
    [n \in 1..(Rows(A) * Cols(A)) |->
        A[((n - 1) \div Cols(A)) + 1][((n - 1) % Cols(A)) + 1]]

\* np.meshgrid(t_points, x_points): two arrays of len(x_points) rows and
\* len(t_points) columns; the first repeats t_points along every row, the
\* second repeats x_points down every column.
grid_t_coords(t_points, x_points) ==
    [i \in 1..Len(x_points) |-> [j \in 1..Len(t_points) |-> t_points[j]]]

grid_x_coords(t_points, x_points) ==
    [i \in 1..Len(x_points) |-> [j \in 1..Len(t_points) |-> x_points[i]]]

\* np.hstack of the two flattened column vectors: row n is (t, x).
All_Data_Coords(t_points, x_points) ==
    LET ft == flatten(grid_t_coords(t_points, x_points))
        fx == flatten(grid_x_coords(t_points, x_points))
    IN  [n \in 1..Len(ft) |-> <<ft[n], fx[n]>>]

\* (mutant) the solution flattened column by column (order = 'F').
All_Data_Values_ColumnMajor(True_Sol_In) ==
    [n \in 1..(Rows(True_Sol_In) * Cols(True_Sol_In)) |->
        True_Sol_In[((n - 1) % Rows(True_Sol_In)) + 1]
                   [((n - 1) \div Rows(True_Sol_In)) + 1]]

All_Data_Values(True_Sol_In) == flatten(True_Sol_In)

\* np.std of the whole array: zero exactly when all entries are equal; a
\* positive deviation is one unit of the value scale.
np_std(A) ==
    IF \A i \in 1..Rows(A), j \in 1..Cols(A) : A[i][j] = A[1][1] THEN 0 ELSE 1

\* np.random.randn(*shape): the draws the model explores, alternating in sign
\* from cell to cell.
randn(R, C) ==
    {[i \in 1..R |-> [j \in 1..C |-> IF (i + j) % 2 = 0 THEN s ELSE -s]] :
        s \in NoiseDraws}

\* True_Sol_In += Noise_Proportion * np.std(True_Sol_In) * randn(...)
AddNoise(A, proportion, Z) ==
    [i \in 1..Rows(A) |-> [j \in 1..Cols(A) |->
        A[i][j] + proportion * np_std(A) * Z[i][j]]]

\* (mutant) replace = True: any k indices, repeats allowed, never raises.
choice_WithReplacement(n, k) == [1..k -> 1..n]

\* np.random.choice(n, k, replace = False): every sequence of k distinct
\* indices; none when k > n (numpy raises ValueError).
choice(n, k) ==
    {s \in [1..k -> 1..n] : \A a, b \in 1..k : a # b => s[a] # s[b]}

\* A[indices, :] and A[indices] for a 1-D index array.
Take(A, indices) == [r \in 1..Len(indices) |-> A[indices[r]]]



\* ------------------------------------------- networks, losses, optimizer
\* A tensor is known by its identity; identity 0 is a tensor the loss
\* functions cannot use (they raise on it).
Tensors == 0..MaxTensor

WellFormed(tensor) == tensor # 0

\* The loss functions of Loss_Functions: a scalar determined by the
\* parameters of the networks they are given and by their tensors.
IC_Loss(u_NN, IC_Coords_, IC_Data_) == 3 * u_NN + IC_Coords_ + IC_Data_

Periodic_BC_Loss(u_NN, Lower_, Upper_, Highest_Order) ==
    5 * u_NN + Lower_ + Upper_ + Highest_Order

Data_Loss(u_NN, Data_Coords, Data_Values) == 7 * u_NN + Data_Coords + Data_Values

Collocation_Loss(u_NN, N_NN, Collocation_Coords) ==
    11 * u_NN + 13 * N_NN + Collocation_Coords

\* The machine state one orchestrator call runs on, with the collaborator
\* calls it has made (events), the loss terms it has evaluated (terms), the
\* total handed to backward and whether an exception is propagating.
Enter ==
    [net |-> net, grads |-> grads, Optimizer |-> Optimizer,
     events |-> <<>>, terms |-> <<>>, total |-> 0, raising |-> FALSE]

\* Optimizer.zero_grad(): the accumulated gradients are dropped.
zero_grad(s) ==
    IF s.raising THEN s
    ELSE [s EXCEPT !.grads = {}, !.events = Append(@, "zero_grad")]

\* One loss term: its value, or the exception it raises on a tensor it
\* cannot use.
Term(s, name, usable, value) ==
    IF s.raising THEN s
    ELSE IF usable
    THEN [s EXCEPT !.events = Append(@, name), !.terms = Append(@, value)]
    ELSE [s EXCEPT !.events = Append(@, name), !.raising = TRUE]

RECURSIVE Sum(_)
Sum(seq) == IF seq = <<>> THEN 0 ELSE Head(seq) + Sum(Tail(seq))

\* Loss.backward() in call n: the gradients of the total are added to the
\* accumulated ones.  When it raises, the gradients it had already written
\* may stay (partial).
backward(s, n, fails, partial) ==
    IF s.raising THEN s
    ELSE IF fails
    THEN [s EXCEPT !.events = Append(@, "backward"), !.raising = TRUE,
                   !.total = Sum(s.terms),
                   !.grads = IF partial THEN @ \cup {n} ELSE @]
    ELSE [s EXCEPT !.events = Append(@, "backward"),
                   !.total = Sum(s.terms),
                   !.grads = @ \cup {n}]

\* Optimizer.step(): one update of the parameters from the accumulated
\* gradients; `used` records the calls whose gradients went into it.
step(s) ==
    IF s.raising THEN s
    ELSE [s EXCEPT !.events = Append(@, "step"),
                   !.Optimizer = [steps |-> @.steps + 1, used |-> s.grads],
                   !.net = IF s.grads = {} THEN @
                           ELSE [u_NN |-> @.u_NN + 1, N_NN |-> @.N_NN + 1]]

\* tensor.item(): a plain number; without it the value is still a tensor.
item(value) == [kind |-> "float", value |-> value]

tensor(value) == [kind |-> "tensor", value |-> value]

\* ------------------------------------------------------------ Test_Train
\* (mutant) Discovery_Training without its Optimizer.zero_grad().
Discovery_Training_NoZeroGrad(s, n, Collocation_Coords, fails, partial) ==
    LET s2 == Term(s, "Collocation_Loss", WellFormed(Collocation_Coords),
                   Collocation_Loss(s.net.u_NN, s.net.N_NN, Collocation_Coords))
        s3 == Term(s2, "Data_Loss", WellFormed(bundle.Data_Coords),
                   Data_Loss(s2.net.u_NN, bundle.Data_Coords, bundle.Data_Values))
        s4 == backward(s3, n, fails, partial)
    IN  step(s4)

Discovery_Training_Run(s, n, Collocation_Coords, fails, partial) ==
    LET s1 == zero_grad(s)
        s2 == Term(s1, "Collocation_Loss", WellFormed(Collocation_Coords),
                   Collocation_Loss(s1.net.u_NN, s1.net.N_NN, Collocation_Coords))
        s3 == Term(s2, "Data_Loss", WellFormed(bundle.Data_Coords),
                   Data_Loss(s2.net.u_NN, bundle.Data_Coords, bundle.Data_Values))
        s4 == backward(s3, n, fails, partial)
    IN  step(s4)

PINNs_Training_Run(s, n, Collocation_Coords, fails, partial) ==
    LET s1 == zero_grad(s)
        s2 == Term(s1, "IC_Loss", WellFormed(bundle.IC_Coords),
                   IC_Loss(s1.net.u_NN, bundle.IC_Coords, bundle.IC_Data))
        s3 == Term(s2, "Periodic_BC_Loss", WellFormed(bundle.Lower_Bound_Coords),
                   Periodic_BC_Loss(s2.net.u_NN, bundle.Lower_Bound_Coords,
                                    bundle.Upper_Bound_Coords,
                                    bundle.Periodic_BCs_Highest_Order))
        s4 == Term(s3, "Collocation_Loss", WellFormed(Collocation_Coords),
                   Collocation_Loss(s3.net.u_NN, s3.net.N_NN, Collocation_Coords))
        s5 == backward(s4, n, fails, partial)
    IN  step(s5)

\* (mutant) Discovery_Testing ending with an Optimizer.step() like training.
Discovery_Testing_Stepping(s, Collocation_Coords) ==
    LET s1 == Term(s, "Collocation_Loss", WellFormed(Collocation_Coords),
                   item(Collocation_Loss(s.net.u_NN, s.net.N_NN, Collocation_Coords)))
        s2 == Term(s1, "Data_Loss", WellFormed(bundle.Data_Coords),
                   item(Data_Loss(s1.net.u_NN, bundle.Data_Coords, bundle.Data_Values)))
    IN  step(s2)

Discovery_Testing_Run(s, Collocation_Coords) ==
    LET s1 == Term(s, "Collocation_Loss", WellFormed(Collocation_Coords),
                   item(Collocation_Loss(s.net.u_NN, s.net.N_NN, Collocation_Coords)))
    IN  Term(s1, "Data_Loss", WellFormed(bundle.Data_Coords),
             item(Data_Loss(s1.net.u_NN, bundle.Data_Coords, bundle.Data_Values)))

PINNs_Testing_Run(s, Collocation_Coords) ==
    LET s1 == Term(s, "IC_Loss", WellFormed(bundle.IC_Coords),
                   tensor(IC_Loss(s.net.u_NN, bundle.IC_Coords, bundle.IC_Data)))
        s2 == Term(s1, "Periodic_BC_Loss", WellFormed(bundle.Lower_Bound_Coords),
                   item(Periodic_BC_Loss(s1.net.u_NN, bundle.Lower_Bound_Coords,
                                         bundle.Upper_Bound_Coords,
                                         bundle.Periodic_BCs_Highest_Order)))
    IN  Term(s2, "Collocation_Loss", WellFormed(Collocation_Coords),
             item(Collocation_Loss(s2.net.u_NN, s2.net.N_NN, Collocation_Coords)))

Snapshot(s) == [net |-> s.net, grads |-> s.grads, Optimizer |-> s.Optimizer]

\* The call is over: the machine state it leaves, and its record.  A
\* training call returns nothing; a testing call returns its terms unless an
\* exception left it.
Leave(op, Collocation_Coords, s, returns) ==
    /\ net' = s.net
    /\ grads' = s.grads
    /\ Optimizer' = s.Optimizer
    /\ calls' = calls + 1
    /\ prev' = last
    /\ last' = [op |-> op, n |-> calls + 1,
                Collocation_Coords |-> Collocation_Coords,
                before |-> Snapshot(Enter), after |-> Snapshot(s),
                events |-> s.events, terms |-> s.terms, total |-> s.total,
                raising |-> s.raising,
                result |-> IF returns /\ ~s.raising THEN s.terms ELSE <<>>]
    /\ UNCHANGED bundle
    /\ UNCHANGED loader_vars
    /\ UNCHANGED sampler_vars

Discovery_Training ==
    /\ calls < MaxCalls
    /\ \E Collocation_Coords \in Tensors, fails \in BOOLEAN, partial \in BOOLEAN :
        Leave("Discovery_Training", Collocation_Coords,
              Discovery_Training_Run(Enter, calls + 1, Collocation_Coords,
                                     fails, partial), FALSE)

Discovery_Testing ==
    /\ calls < MaxCalls
    /\ \E Collocation_Coords \in Tensors :
        Leave("Discovery_Testing", Collocation_Coords,
              Discovery_Testing_Run(Enter, Collocation_Coords), TRUE)

PINNs_Training ==
    /\ calls < MaxCalls
    /\ \E Collocation_Coords \in Tensors, fails \in BOOLEAN, partial \in BOOLEAN :
        Leave("PINNs_Training", Collocation_Coords,
              PINNs_Training_Run(Enter, calls + 1, Collocation_Coords,
                                 fails, partial), FALSE)

PINNs_Testing ==
    /\ calls < MaxCalls
    /\ \E Collocation_Coords \in Tensors :
        Leave("PINNs_Testing", Collocation_Coords,
              PINNs_Testing_Run(Enter, Collocation_Coords), TRUE)

NoCall ==
    [op |-> "none", n |-> 0, Collocation_Coords |-> 0,
     before |-> [net |-> [u_NN |-> 0, N_NN |-> 0], grads |-> {},
                 Optimizer |-> [steps |-> 0, used |-> {}]],
     after  |-> [net |-> [u_NN |-> 0, N_NN |-> 0], grads |-> {},
                 Optimizer |-> [steps |-> 0, used |-> {}]],
     events |-> <<>>, terms |-> <<>>, total |-> 0, raising |-> FALSE,
     result |-> <<>>]

\* The data tensors of one run: all usable, or with unusable coordinates.
Bundles ==
    {[IC_Coords |-> c, IC_Data |-> 1, Lower_Bound_Coords |-> c,
      Upper_Bound_Coords |-> 2, Periodic_BCs_Highest_Order |-> order,
      Data_Coords |-> d, Data_Values |-> 1] :
        c \in Tensors, d \in Tensors, order \in 1..2}

TrainInit ==
    /\ net = [u_NN |-> 0, N_NN |-> 0]
    /\ grads = {}
    /\ Optimizer = [steps |-> 0, used |-> {}]
    /\ bundle = [IC_Coords |-> 1, IC_Data |-> 1, Lower_Bound_Coords |-> 1,
                 Upper_Bound_Coords |-> 2, Periodic_BCs_Highest_Order |-> 1,
                 Data_Coords |-> 1, Data_Values |-> 1]
    /\ calls = 0
    /\ last = NoCall
    /\ prev = NoCall

\* No Data_Loader call in a run of the orchestrators.
LoaderIdle ==
    /\ data_in = [t |-> <<0, 1>>, x |-> <<0, 1>>, usol |-> SolutionArray(2, 2)]
    /\ Settings = [Mode |-> "Discovery", Noise_Proportion |-> 0,
                   Num_Train_Data_Points |-> 1, Num_Test_Data_Points |-> 1]
    /\ pc = "idle"
    /\ raised = "none"
    /\ Container = NoContainer

InitTrain ==
    /\ LoaderIdle
    /\ SamplerIdle
    /\ net = [u_NN |-> 0, N_NN |-> 0]
    /\ grads = {}
    /\ Optimizer = [steps |-> 0, used |-> {}]
    /\ bundle \in Bundles
    /\ calls = 0
    /\ last = NoCall
    /\ prev = NoCall

NextTrain ==
    \/ Discovery_Training
    \/ Discovery_Testing
    \/ PINNs_Training
    \/ PINNs_Testing

SpecTrain == InitTrain /\ [][NextTrain]_vars

\* ------------------------------------------------------------- Data_Loader
\* x_points[-2] (and so x_upper) exists only on an axis of two or more
\* samples: numpy raises IndexError on a shorter one.
HasSecondToLast(x_points) == Len(x_points) >= 2

x_lower(x_points) == x_points[1]

\* (mutant) the last stored sample, without the grid spacing.
x_upper_LastSample(x_points) == x_points[Len(x_points)]

x_upper(x_points) ==
    x_points[Len(x_points)] + (x_points[Len(x_points)] - x_points[Len(x_points) - 1])

t_lower(t_points) == t_points[1]

t_upper(t_points) == t_points[Len(t_points)]

\* np.zeros((n_x, 2)) with column 1 set to x_points.
IC_Coords(x_points) == [i \in 1..Len(x_points) |-> <<0, x_points[i]>>]

\* True_Sol_In[:, 0]
IC_Data(True_Sol_In) == [i \in 1..Rows(True_Sol_In) |-> True_Sol_In[i][1]]

\* np.full((n_t, 2), x_lower) with column 0 set to t_points.
Lower_Bound_Coords(t_points, x_points) ==
    [i \in 1..Len(t_points) |-> <<t_points[i], x_lower(x_points)>>]

\* (mutant) the upper boundary placed on the last stored space sample.
Upper_Bound_Coords_LastSample(t_points, x_points) ==
    [i \in 1..Len(t_points) |-> <<t_points[i], x_points[Len(x_points)]>>]

\* np.full((n_t, 2), x_upper) with column 0 set to t_points.
Upper_Bound_Coords(t_points, x_points) ==
    [i \in 1..Len(t_points) |-> <<t_points[i], x_upper(x_points)>>]

\* What the container holds before the mode is looked at.
BaseContainer(t_points, x_points, True_Sol_In) ==
    [t_points         |-> t_points,
     x_points         |-> x_points,
     True_Sol         |-> True_Sol_In,
     Dim_Lower_Bounds |-> <<t_lower(t_points), x_lower(x_points)>>,
     Dim_Upper_Bounds |-> <<t_upper(t_points), x_upper(x_points)>>]

PINNsBundle(t_points, x_points, True_Sol_In) ==
    [IC_Coords          |-> IC_Coords(x_points),
     IC_Data            |-> IC_Data(True_Sol_In),
     Lower_Bound_Coords |-> Lower_Bound_Coords(t_points, x_points),
     Upper_Bound_Coords |-> Upper_Bound_Coords(t_points, x_points)]

DiscoveryBundle(Coords, Values, Train_Indicies, Test_Indicies) ==
    [Train_Data_Coords |-> Take(Coords, Train_Indicies),
     Train_Data_Values |-> Take(Values, Train_Indicies),
     Test_Data_Coords  |-> Take(Coords, Test_Indicies),
     Test_Data_Values  |-> Take(Values, Test_Indicies)]

\* Indexing a 1-D array of `size` elements with an index beyond it raises
\* IndexError.
InBounds(indices, size) == \A r \in 1..Len(indices) : indices[r] <= size

Return(c) == pc' = "returned" /\ raised' = "none" /\ Container' = c

Raise(e) == pc' = "raised" /\ raised' = e /\ Container' = NoContainer

\* The mode branch of Data_Loader, lines 93-157.  In Discovery mode the
\* train draw comes first, then the test draw, then the four selections.
ModeBranch(Mode, base, t_points, x_points, True_Sol_In) ==
    LET Coords == All_Data_Coords(t_points, x_points)
        Values == All_Data_Values(True_Sol_In)
        Trains == choice(Len(Coords), Settings.Num_Train_Data_Points)
        Tests  == choice(Len(Coords), Settings.Num_Test_Data_Points)
    IN  IF Mode = "PINNs"
        THEN Return(base @@ PINNsBundle(t_points, x_points, True_Sol_In))
        ELSE IF Mode = "Discovery"
        THEN IF Trains = {}
             THEN Raise("ValueError")
             ELSE IF Tests = {}
             THEN Raise("ValueError")
             ELSE \E Train_Indicies \in Trains, Test_Indicies \in Tests :
                    IF  /\ InBounds(Train_Indicies, Len(Values))
                        /\ InBounds(Test_Indicies, Len(Values))
                    THEN Return(base @@ DiscoveryBundle(Coords, Values,
                                            Train_Indicies, Test_Indicies))
                    ELSE Raise("IndexError")
        ELSE Return(base)

Data_Loader ==
    /\ pc = "call"
    /\ \E Z \in randn(Rows(data_in.usol), Cols(data_in.usol)) :
        LET t_points    == data_in.t
            x_points    == data_in.x
            True_Sol_In == AddNoise(data_in.usol, Settings.Noise_Proportion, Z)
        IN  IF ~HasSecondToLast(x_points)
            THEN Raise("IndexError")
            ELSE ModeBranch(Settings.Mode,
                            BaseContainer(t_points, x_points, True_Sol_In),
                            t_points, x_points, True_Sol_In)
    /\ UNCHANGED <<data_in, Settings>>
    /\ UNCHANGED train_vars
    /\ UNCHANGED sampler_vars

\* The shapes of the stored solution array tried on a grid of X space and T
\* time samples: the right one, the transposed one, one row more, one less.
Shapes(X, T) == {<<X, T>>, <<T, X>>, <<X + 1, T>>} \cup
                (IF X > 1 THEN {<<X - 1, T>>} ELSE {})

\* The stored datasets: both axes and a solution array, at most MaxCells
\* grid cells.
Datasets ==
    UNION {{[t |-> t, x |-> x, usol |-> SolutionArray(sh[1], sh[2])] :
                sh \in Shapes(Len(x), Len(t))} :
           <<t, x>> \in {ax \in Axes(MaxCells) \X Axes(MaxCells) :
                            Len(ax[1]) * Len(ax[2]) <= MaxCells}}

Init ==
    /\ data_in \in Datasets
    /\ Settings \in [Mode : Modes,
                     Noise_Proportion : NoiseProportions,
                     Num_Train_Data_Points : 1..MaxPoints,
                     Num_Test_Data_Points : 1..MaxPoints]
    /\ pc = "call"
    /\ raised = "none"
    /\ Container = NoContainer
    /\ TrainInit
    /\ SamplerIdle

Next == Data_Loader

Spec == Init /\ [][Next]_vars

\* ------------------------------------------------- Generate_Random_Coords
\* random.uniform(a, b) = a + (b - a) * random.random(), for the draw
\* j/RandomResolution of random.random(): the Python float, as a count of
\* 1/RandomResolution.
random_uniform(a, b, j) == a * RandomResolution + (b - a) * j

\* Coords[i, k] = value: the Python float is stored in a tensor of Data_Type,
\* rounded to the nearest value that type holds, a tie going to the even one.
ToTensor(v) ==
    LET q == v \div RandomResolution
        r == v % RandomResolution
    IN  IF 2 * r < RandomResolution THEN q
        ELSE IF 2 * r > RandomResolution THEN q + 1
        ELSE IF q % 2 = 0 THEN q ELSE q + 1

\* (mutant) the bounds of the first dimension used for every column.
Entry_FirstDimension(Dim_Lower_Bounds, Dim_Upper_Bounds, k, j) ==
    ToTensor(random_uniform(Dim_Lower_Bounds[1], Dim_Upper_Bounds[1], j))

\* Coords[i, k] = random.uniform(Dim_Lower_Bounds[k], Dim_Upper_Bounds[k])
Entry(Dim_Lower_Bounds, Dim_Upper_Bounds, k, j) ==
    ToTensor(random_uniform(Dim_Lower_Bounds[k], Dim_Upper_Bounds[k], j))

\* The body of Generate_Random_Coords for the draws random.random() makes,
\* one per entry: a tensor of Num_Points rows and d columns.
Generate_Random_Coords_Run(Dim_Lower_Bounds, Dim_Upper_Bounds, Num_Points, draws) ==
    LET d == Len(Dim_Lower_Bounds)
    IN  [shape |-> <<Num_Points, d>>,
         rows  |-> [i \in 1..Num_Points |-> [k \in 1..d |->
                        Entry(Dim_Lower_Bounds, Dim_Upper_Bounds, k, draws[i][k])]]]

Generate_Random_Coords ==
    /\ sampler_pc = "call"
    /\ \E draws \in [1..sampler_args.Num_Points ->
                        [1..Len(sampler_args.Dim_Lower_Bounds) ->
                            0..(RandomResolution - 1)]] :
        Random_Coords' = Generate_Random_Coords_Run(sampler_args.Dim_Lower_Bounds,
                            sampler_args.Dim_Upper_Bounds,
                            sampler_args.Num_Points, draws)
    /\ sampler_pc' = "returned"
    /\ UNCHANGED sampler_args
    /\ UNCHANGED loader_vars
    /\ UNCHANGED train_vars

\* The boxes of d dimensions, as the two bound vectors.
Boxes(d) ==
    {[Dim_Lower_Bounds |-> [k \in 1..d |-> b[k][1]],
      Dim_Upper_Bounds |-> [k \in 1..d |-> b[k][2]]] : b \in [1..d -> BoxKinds]}

\* The calls: a box of d >= 1 dimensions and a point count N >= 0 with at
\* most MaxEntries entries to fill.
SamplerCalls ==
    UNION {{[Dim_Lower_Bounds |-> box.Dim_Lower_Bounds,
             Dim_Upper_Bounds |-> box.Dim_Upper_Bounds,
             Num_Points |-> N] : box \in Boxes(d)} :
           <<d, N>> \in {dn \in (1..MaxEntries) \X (0..MaxEntries) :
                            dn[1] * dn[2] <= MaxEntries}}

InitSampler ==
    /\ LoaderIdle
    /\ TrainInit
    /\ sampler_args \in SamplerCalls
    /\ sampler_pc = "call"
    /\ Random_Coords = [shape |-> <<0, 0>>, rows |-> <<>>]

NextSampler == Generate_Random_Coords

SpecSampler == InitSampler /\ [][NextSampler]_vars

\* ------------------------------------------------------------ the claims
Returned == pc = "returned"

NumX == Len(data_in.x)
NumT == Len(data_in.t)
NumCells == NumX * NumT

\* usol.shape == (X, T)
ShapeMatches == Rows(data_in.usol) = NumX /\ Cols(data_in.usol) = NumT

Has(attrs) == attrs \subseteq DOMAIN Container

PINNsAttrs == {"IC_Coords", "IC_Data", "Lower_Bound_Coords", "Upper_Bound_Coords"}

DiscoveryAttrs ==
    {"Train_Data_Coords", "Train_Data_Values", "Test_Data_Coords", "Test_Data_Values"}

\* Every row is a grid coordinate (t_points[it], x_points[ix]) and the value
\* at the same position is the (noised) solution at that cell.
RowsAligned(coords, values) ==
    /\ Len(values) = Len(coords)
    /\ \A j \in 1..Len(coords) :
        \E ix \in 1..NumX, it \in 1..NumT :
            /\ coords[j] = <<data_in.t[it], data_in.x[ix]>>
            /\ values[j] = Container.True_Sol[ix][it]

NoRepeatedRow(coords) ==
    \A a, b \in 1..Len(coords) : a # b => coords[a] # coords[b]

\* C1: in Discovery mode on a grid whose solution array has one row per space
\* point and one column per time point, the train tensors have exactly the
\* requested k rows and the test tensors the requested m rows, every row is a
\* grid coordinate paired with the (noised) solution at that cell, and no
\* draw holds the same grid cell twice.
C1_DiscoverySample ==
    (Returned /\ Settings.Mode = "Discovery" /\ ShapeMatches) =>
        /\ Has(DiscoveryAttrs)
        /\ Len(Container.Train_Data_Coords) = Settings.Num_Train_Data_Points
        /\ Len(Container.Test_Data_Coords) = Settings.Num_Test_Data_Points
        /\ RowsAligned(Container.Train_Data_Coords, Container.Train_Data_Values)
        /\ RowsAligned(Container.Test_Data_Coords, Container.Test_Data_Values)
        /\ NoRepeatedRow(Container.Train_Data_Coords)
        /\ NoRepeatedRow(Container.Test_Data_Coords)

\* A noised 2 x 2 grid from which three train points and two test points
\* were drawn.
C1_Witness ==
    /\ Returned /\ Settings.Mode = "Discovery" /\ ShapeMatches
    /\ NumX = 2 /\ NumT = 2 /\ Settings.Noise_Proportion = 1
    /\ Len(Container.Train_Data_Coords) = 3
    /\ Len(Container.Test_Data_Coords) = 2

TooManyRequested ==
    \/ Settings.Num_Train_Data_Points > NumCells
    \/ Settings.Num_Test_Data_Points > NumCells

\* C2: in Discovery mode a train or test count above the number of grid
\* cells makes the call fail and return no container, so no bundle with too
\* few rows, repeated rows or only its train half exists; on a space axis
\* long enough for the bounds to be computed the failure is numpy's
\* insufficient-population ValueError.
C2_InsufficientPopulation ==
    (pc # "call" /\ Settings.Mode = "Discovery" /\ TooManyRequested) =>
        /\ pc = "raised"
        /\ DOMAIN Container = DOMAIN NoContainer
        /\ HasSecondToLast(data_in.x) => raised = "ValueError"

\* The train count fits the grid and the test count does not: the call still
\* fails, after the train draw succeeded.
C2_Witness ==
    /\ pc = "raised" /\ raised = "ValueError" /\ Settings.Mode = "Discovery"
    /\ Settings.Num_Train_Data_Points <= NumCells
    /\ Settings.Num_Test_Data_Points > NumCells

\* C3: in PINNs mode IC_Coords has one row per space point, row i is
\* (t_points[0], x_points[i]) whatever the first time sample is, and
\* IC_Data[i] is the (noised) usol[i, 0].
C3_InitialCondition ==
    (Returned /\ Settings.Mode = "PINNs" /\ ShapeMatches) =>
        /\ Len(Container.IC_Coords) = NumX
        /\ Len(Container.IC_Data) = NumX
        /\ \A i \in 1..NumX :
            /\ Container.IC_Coords[i] = <<data_in.t[1], data_in.x[i]>>
            /\ Container.IC_Data[i] = Container.True_Sol[i][1]

\* C4: in PINNs mode the lower and upper boundary tensors have one row per
\* time point, row i of both carries t_points[i], every lower row sits on
\* the Domain Box's spatial lower bound and every upper row on its spatial
\* upper bound.
C4_PeriodicBoundary ==
    (Returned /\ Settings.Mode = "PINNs") =>
        /\ Len(Container.Lower_Bound_Coords) = NumT
        /\ Len(Container.Upper_Bound_Coords) = NumT
        /\ \A i \in 1..NumT :
            /\ Container.Lower_Bound_Coords[i] =
                    <<data_in.t[i], Container.Dim_Lower_Bounds[2]>>
            /\ Container.Upper_Bound_Coords[i] =
                    <<data_in.t[i], Container.Dim_Upper_Bounds[2]>>

C4_Witness ==
    /\ Returned /\ Settings.Mode = "PINNs" /\ NumT = 2
    /\ Container.Lower_Bound_Coords[2][1] = data_in.t[2]
    /\ Container.Upper_Bound_Coords[2][2] > data_in.x[NumX]

\* C5: the Domain Box of a returned container has lower bounds
\* (t_points[0], x_points[0]) and upper bounds (t_points[-1],
\* x_points[-1] + (x_points[-1] - x_points[-2])), and its spatial upper
\* bound lies strictly above the last space sample.
C5_DomainBox ==
    Returned =>
        /\ Container.Dim_Lower_Bounds = <<data_in.t[1], data_in.x[1]>>
        /\ Container.Dim_Upper_Bounds =
                <<data_in.t[NumT],
                  data_in.x[NumX] + (data_in.x[NumX] - data_in.x[NumX - 1])>>
        /\ Container.Dim_Upper_Bounds[2] > data_in.x[NumX]

\* A grid that starts off the origin with a spacing of two.
C5_Witness ==
    /\ Returned
    /\ data_in.x[1] = 1 /\ data_in.x[NumX] - data_in.x[NumX - 1] = 2
    /\ Container.Dim_Upper_Bounds[2] = data_in.x[NumX] + 2

\* C6: the Domain Box returned for a well-shaped grid has its upper bound
\* strictly above its lower bound in the time and in the space dimension.
C6_BoxNotDegenerate ==
    (Returned /\ ShapeMatches) =>
        \A d \in 1..2 : Container.Dim_Upper_Bounds[d] > Container.Dim_Lower_Bounds[d]

\* C7: when the solution array's row or column count disagrees with the
\* axes, Data_Loader fails: no container built from them is returned.
C7_ShapeMismatchFails ==
    (pc # "call" /\ ~ShapeMatches) => pc = "raised"

\* C8: a container returned (already for a well-shaped grid) holds the PINNs
\* bundle or the Discovery bundle, exactly one of the two, whatever the mode
\* selector is.
C8_ExactlyOneBundle ==
    (Returned /\ ShapeMatches) =>
        \/ Has(PINNsAttrs) /\ DOMAIN Container \cap DiscoveryAttrs = {}
        \/ Has(DiscoveryAttrs) /\ DOMAIN Container \cap PINNsAttrs = {}

\* ------------------------------------------- the claims on Test_Train
TrainingOps == {"Discovery_Training", "PINNs_Training"}

TestingOps == {"Discovery_Testing", "PINNs_Testing"}

\* The collaborator calls of one complete training call, in order.
TrainingEvents(op) ==
    IF op = "Discovery_Training"
    THEN <<"zero_grad", "Collocation_Loss", "Data_Loss", "backward", "step">>
    ELSE <<"zero_grad", "IC_Loss", "Periodic_BC_Loss", "Collocation_Loss",
           "backward", "step">>

\* The sum of the mode's named terms on the parameters the call started with.
NamedTotal(c) ==
    IF c.op = "Discovery_Training"
    THEN Collocation_Loss(c.before.net.u_NN, c.before.net.N_NN, c.Collocation_Coords)
         + Data_Loss(c.before.net.u_NN, bundle.Data_Coords, bundle.Data_Values)
    ELSE IC_Loss(c.before.net.u_NN, bundle.IC_Coords, bundle.IC_Data)
         + Periodic_BC_Loss(c.before.net.u_NN, bundle.Lower_Bound_Coords,
                            bundle.Upper_Bound_Coords,
                            bundle.Periodic_BCs_Highest_Order)
         + Collocation_Loss(c.before.net.u_NN, c.before.net.N_NN, c.Collocation_Coords)

IsPrefix(a, b) == Len(a) <= Len(b) /\ \A i \in 1..Len(a) : a[i] = b[i]

\* C9: a training call that completes has cleared the gradients, evaluated
\* the mode's loss terms, back-propagated their sum and stepped the
\* optimizer, in that order and once each, and the step used the gradients
\* of this call alone; a training call left by an exception made a prefix
\* of those calls, without the step, and left parameters and optimizer as
\* they were.
C9_TrainingStep ==
    (last.op \in TrainingOps) =>
        /\ ~last.raising =>
            /\ last.events = TrainingEvents(last.op)
            /\ last.total = NamedTotal(last)
            /\ last.after.Optimizer.steps = last.before.Optimizer.steps + 1
            /\ last.after.Optimizer.used = {last.n}
        /\ last.raising =>
            /\ IsPrefix(last.events, TrainingEvents(last.op))
            /\ \A i \in 1..Len(last.events) : last.events[i] # "step"
            /\ last.after.Optimizer = last.before.Optimizer
            /\ last.after.net = last.before.net

\* A training call completes right after one whose back-propagation raised
\* and left gradients behind.
C9_Witness ==
    /\ last.op \in TrainingOps /\ ~last.raising
    /\ prev.op \in TrainingOps /\ prev.raising
    /\ prev.after.grads = {prev.n}
    /\ last.after.Optimizer.used = {last.n}
    /\ last.after.net # last.before.net

\* C10: a testing call makes no zero_grad, backward or step call and leaves
\* parameters, gradients and optimizer state as it found them; two testing
\* calls of one kind in immediate succession on the same tensors return the
\* same losses.
C10_TestingFrame ==
    /\ (last.op \in TestingOps) =>
        /\ last.after = last.before
        /\ \A i \in 1..Len(last.events) :
                last.events[i] \notin {"zero_grad", "backward", "step"}
    /\ (last.op \in TestingOps /\ prev.op = last.op
            /\ prev.Collocation_Coords = last.Collocation_Coords) =>
        /\ prev.raising = last.raising
        /\ prev.result = last.result

\* Two equal testing calls in a row on trained networks that still hold
\* gradients, both returning their losses.
C10_Witness ==
    /\ last.op \in TestingOps /\ prev.op = last.op
    /\ prev.Collocation_Coords = last.Collocation_Coords
    /\ last.result # <<>> /\ prev.result = last.result
    /\ net.u_NN > 0 /\ grads # {}

\* The losses a testing call measures, in the order it has to return them.
MeasuredLosses(c) ==
    IF c.op = "Discovery_Testing"
    THEN <<Collocation_Loss(c.before.net.u_NN, c.before.net.N_NN, c.Collocation_Coords),
           Data_Loss(c.before.net.u_NN, bundle.Data_Coords, bundle.Data_Values)>>
    ELSE <<IC_Loss(c.before.net.u_NN, bundle.IC_Coords, bundle.IC_Data),
           Periodic_BC_Loss(c.before.net.u_NN, bundle.Lower_Bound_Coords,
                            bundle.Upper_Bound_Coords,
                            bundle.Periodic_BCs_Highest_Order),
           Collocation_Loss(c.before.net.u_NN, c.before.net.N_NN, c.Collocation_Coords)>>

\* C11: a testing call that returns hands back its loss terms in the fixed
\* order of its mode (Discovery: collocation, data; PINNs: initial
\* condition, boundary, collocation), every one of them a plain number and
\* none a tensor.
C11_PlainNumbers ==
    (last.op \in TestingOps /\ ~last.raising) =>
        /\ Len(last.result) = Len(MeasuredLosses(last))
        /\ \A i \in 1..Len(last.result) :
            /\ last.result[i].value = MeasuredLosses(last)[i]
            /\ last.result[i].kind = "float"

\* ------------------------------- the claims on Generate_Random_Coords
\* The returned tensor has Num_Points rows and one column per dimension.
SamplerShape ==
    /\ Random_Coords.shape =
            <<sampler_args.Num_Points, Len(sampler_args.Dim_Lower_Bounds)>>
    /\ Len(Random_Coords.rows) = sampler_args.Num_Points
    /\ \A i \in 1..Len(Random_Coords.rows) :
            Len(Random_Coords.rows[i]) = Len(sampler_args.Dim_Lower_Bounds)

=============================================================================
